---------------------------- MODULE Spec2Model ----------------------------
(***************************************************************************)
(* Model of get_odds_streamlit.py: the odds format converter               *)
(* (to_american_odds), event discovery (get_upcoming_games) and the        *)
(* per-event odds fetch with result assembly (fetch_odds).                 *)
(*                                                                         *)
(* Numbers.  A Python float is modelled as an exact multiple of 1/Den,     *)
(* Den a power of two.  On such values of small magnitude the IEEE double  *)
(* operations the code performs (d - 1, (d - 1) * 100, the truncation of   *)
(* -100 / (d - 1)) give exactly the results of rational arithmetic, so the *)
(* integer arithmetic below is what the code computes on these inputs.     *)
(* Timestamps are whole hours.  Strings whose characters matter (a price   *)
(* given as text, a bookmaker title) are sequences of one-character        *)
(* strings.                                                                *)
(***************************************************************************)
EXTENDS Integers, Sequences, FiniteSets, TLC

VARIABLES
    \* ---- to_american_odds ----
    odds_value,     \* the argument of to_american_odds
    american,       \* what the call gave back to its caller
    cpc,            \* "call": not yet called, "ret": the call is over, "idle"
    \* ---- get_upcoming_games ----
    api_key,        \* content of key.txt: "missing", "empty" or "key"
    now_utc,        \* datetime.now(timezone.utc), in hours
    events,         \* the JSON array of the events response
    ei,             \* number of events the for loop has handled
    games,          \* the list get_upcoming_games builds and returns
    printed,        \* indices of the events whose parse error was printed
    ui,             \* st.error / st.warning calls of get_upcoming_games
    dpc,            \* "start", "loop", "done" (returned after the loop), "failed"
                    \* (returned [] early), "stopped" (st.stop()), "idle"
    \* ---- fetch_odds ----
    selected_games, \* the argument of fetch_odds
    idx,            \* number of selected games the for loop has handled
    resp,           \* the HTTP outcome of the latest requests.get
    gets,           \* event ids of the HTTP GETs issued, in order
    all_props,      \* the accumulator of records
    warnings,       \* st.warning calls of fetch_odds, in order
    progress,       \* <<numerator, denominator>> last given to the progress bar
    df,             \* the table fetch_odds returns
    fpc             \* "start", "loop", "done" (returned), "raised" (an exception
                    \* left fetch_odds), "stopped" (st.stop()), "idle"

convVars == <<odds_value, american, cpc>>
discVars == <<api_key, now_utc, events, ei, games, printed, ui, dpc>>
fetchVars == <<selected_games, idx, resp, gets, all_props, warnings, progress, df, fpc>>
vars == <<odds_value, american, cpc,
          api_key, now_utc, events, ei, games, printed, ui, dpc,
          selected_games, idx, resp, gets, all_props, warnings, progress, df, fpc>>

---------------------------------------------------------------------------
(* Bounds of the model *)

\* whole parts of the float prices tried: -MaxWhole .. MaxWhole
MaxWhole == 101
\* Python ints tried as prices: -MaxInt .. MaxInt
MaxInt == 151
\* longest price given as text
MaxStrLen == 3

---------------------------------------------------------------------------
(* Numbers *)

\* floats are multiples of 1/Den
Den == 2 * 2 * 2

Abs(x) == IF x < 0 THEN -x ELSE x

RECURSIVE Pow10(_)
Pow10(k) == IF k = 0 THEN 1 ELSE 10 * Pow10(k - 1)

\* the quotient a / b, b # 0, rounded down (what int() does not do)
FloorDiv(a, b) == IF b < 0 THEN (-a) \div (-b) ELSE a \div b

\* int() of the quotient a / b, b # 0: Python's int() truncates toward zero
TruncDiv(a, b) ==
    LET q == Abs(a) \div Abs(b)
    IN  IF (a < 0) = (b < 0) THEN q ELSE -q

---------------------------------------------------------------------------
(* Python values that can arrive as a price *)

Digits == <<"0", "1", "2", "3", "4", "5", "6", "7", "8", "9">>
IsDigit(c) == \E i \in 1..10 : Digits[i] = c
DigitVal(c) == (CHOOSE i \in 1..10 : Digits[i] = c) - 1

\* t: "int" (n is the value), "float" (n / Den is the value), "inf" (n is the
\* sign), "nan", "str" (s is the text), "none" (JSON null or no "price" key;
\* float() raises TypeError on it, as on a JSON array or object)
PyInt(n) == [t |-> "int", n |-> n, s |-> <<>>]
PyFloat(n) == [t |-> "float", n |-> n, s |-> <<>>]
PyInf(sign) == [t |-> "inf", n |-> sign, s |-> <<>>]
PyNaN == [t |-> "nan", n |-> 0, s |-> <<>>]
PyStr(s) == [t |-> "str", n |-> 0, s |-> s]
PyNone == [t |-> "none", n |-> 0, s |-> <<>>]

\* what a call gives back: an int, None, or an exception that left it
RetInt(v) == [k |-> "int", v |-> v, e |-> ""]
RetNone == [k |-> "None", v |-> 0, e |-> ""]
Raised(e) == [k |-> "raise", v |-> 0, e |-> e]

RECURSIVE DigitsValue(_)
DigitsValue(s) ==
    IF s = <<>> THEN 0
    ELSE 10 * DigitsValue(SubSeq(s, 1, Len(s) - 1)) + DigitVal(s[Len(s)])

\* float(text) for texts over digits, ".", "-" and letters other than those of
\* "inf", "nan" and exponents: an optional sign, digits with at most one ".",
\* at least one digit.  ok = FALSE is ValueError; the value is num / 10^frac.
ParseFloat(s) ==
    LET neg  == Len(s) > 0 /\ s[1] = "-"
        body == IF neg THEN SubSeq(s, 2, Len(s)) ELSE s
        dots == {i \in 1..Len(body) : body[i] = "."}
        good == /\ \A i \in 1..Len(body) : IsDigit(body[i]) \/ body[i] = "."
                /\ Cardinality(dots) <= 1
                /\ \E i \in 1..Len(body) : IsDigit(body[i])
        dot  == IF dots = {} THEN Len(body) + 1 ELSE CHOOSE i \in dots : TRUE
        ds   == SubSeq(body, 1, dot - 1) \o SubSeq(body, dot + 1, Len(body))
        mag  == IF good THEN DigitsValue(ds) ELSE 0
    IN  [ok |-> good,
         num |-> IF neg THEN -mag ELSE mag,
         frac |-> IF good /\ dots # {} THEN Len(body) - dot ELSE 0]

\* the text denotes a multiple of 1/Den (or is not a number at all)
OnGrid(s) ==
    LET p == ParseFloat(s)
    IN  p.ok => (p.num * Den) % Pow10(p.frac) = 0

\* isinstance(odds_value, int)
IsInstanceInt(x) == x.t = "int"
\* isinstance(odds_value, float)
IsInstanceFloat(x) == x.t \in {"float", "inf", "nan"}

\* abs(odds_value) > 100 for a float; every comparison with nan is False
AbsGt100(x) ==
    CASE x.t = "float" -> Abs(x.n) > 100 * Den
      [] x.t = "inf" -> TRUE
      [] OTHER -> FALSE

\* int(odds_value) for an int or a float: [ok, v] or the exception
IntOf(x) ==
    CASE x.t = "int" -> RetInt(x.n)
      [] x.t = "float" -> RetInt(TruncDiv(x.n, Den))
      [] x.t = "inf" -> Raised("OverflowError")
      [] OTHER -> Raised("ValueError")

\* float(odds_value): a float (as the Py value) or the exception in .e
FloatOf(x) ==
    CASE x.t \in {"float", "inf", "nan"} -> [ok |-> TRUE, f |-> x, e |-> ""]
      [] x.t = "int" -> [ok |-> TRUE, f |-> PyFloat(x.n * Den), e |-> ""]
      [] x.t = "str" ->
            LET p == ParseFloat(x.s)
            IN  IF p.ok
                THEN [ok |-> TRUE, f |-> PyFloat((p.num * Den) \div Pow10(p.frac)), e |-> ""]
                ELSE [ok |-> FALSE, f |-> PyNaN, e |-> "ValueError"]
      [] OTHER -> [ok |-> FALSE, f |-> PyNaN, e |-> "TypeError"]

\* faulty variant of AtLeastTwo: decimal_odds > 2.0
AtLeastTwoStrict(d) == d.t = "float" /\ d.n > 2 * Den

\* decimal_odds >= 2.0
AtLeastTwo(d) == d.t = "float" /\ d.n >= 2 * Den

\* int((decimal_odds - 1) * 100)
PositiveBranch(d) == RetInt(TruncDiv((d.n - Den) * 100, Den))

\* faulty variant of NegativeBranch: the quotient is rounded down
NegativeBranchFloor(d) ==
    CASE d.t = "nan" -> Raised("ValueError")
      [] d.n = Den -> Raised("ZeroDivisionError")
      [] OTHER -> RetInt(FloorDiv(-100 * Den, d.n - Den))

\* int(-100 / (decimal_odds - 1)); nan propagates to int(nan)
NegativeBranch(d) ==
    CASE d.t = "nan" -> Raised("ValueError")
      [] d.n = Den -> Raised("ZeroDivisionError")
      [] OTHER -> RetInt(TruncDiv(-100 * Den, d.n - Den))

\* faulty variant of Caught: except (ValueError, TypeError)
CaughtParseOnly(e) == e \in {"ValueError", "TypeError"}

\* except Exception: every exception the body can raise is an Exception
Caught(e) == e \in {"ValueError", "TypeError", "ZeroDivisionError", "OverflowError"}

\* the try block of to_american_odds
ConvertBody(x) ==
    IF IsInstanceInt(x) \/ (IsInstanceFloat(x) /\ AbsGt100(x))
    THEN IntOf(x)
    ELSE LET d == FloatOf(x)
         IN  IF ~d.ok THEN Raised(d.e)
             ELSE IF AtLeastTwo(d.f) THEN PositiveBranch(d.f)
             ELSE NegativeBranch(d.f)

to_american_odds(x) ==
    LET r == ConvertBody(x)
    IN  IF r.k = "raise" /\ Caught(r.e) THEN RetNone ELSE r

---------------------------------------------------------------------------
(* Shared helpers *)

\* all sequences over S of length at most n
SeqsUpTo(S, n) == UNION {[1..k -> S] : k \in 0..n}

RECURSIVE ConcatTo(_, _)
ConcatTo(f, k) == IF k = 0 THEN <<>> ELSE ConcatTo(f, k - 1) \o f[k]
\* the concatenation of a sequence of sequences
ConcatAll(f) == ConcatTo(f, Len(f))

---------------------------------------------------------------------------
(* Configuration *)

HOURS_AHEAD == 48

\* what load_api_key can find in key.txt
KeyFiles == {"missing", "empty", "key"}

\* load_api_key returns (it stops the script run otherwise)
KeyLoads(k) == k = "key"

---------------------------------------------------------------------------
(* Event discovery: get_upcoming_games *)

\* most events in one events response
MaxEvents == 3
\* now_utc ranges over 0 .. MaxNow (hours)
MaxNow == 1

EventKeys == {"id", "home_team", "away_team", "commence_time"}

\* kickoffs of the response: long past, at HOURS_AHEAD and one hour later
KickWalls == {0, HOURS_AHEAD, HOURS_AHEAD + 1}

\* a commence_time as the API writes it: an ISO-8601 text of day d, hour h with
\* the suffix "Z"; fmt = "bad" is a text datetime.fromisoformat rejects
IsoZ(wall) == [fmt |-> "iso", d |-> wall \div 24, h |-> wall % 24, sfx |-> "Z"]
BadTime == [fmt |-> "bad", d |-> 0, h |-> 0, sfx |-> ""]
CommenceTimes == {IsoZ(w) : w \in KickWalls} \cup {BadTime}

\* the i-th event of the response; keys are the fields the JSON object has
EventAt(i, keys, ct) ==
    [keys |-> keys, id |-> i, home_team |-> 2 * i - 1, away_team |-> 2 * i,
     commence_time |-> ct]

KeySets == {EventKeys, EventKeys \ {"home_team"}, EventKeys \ {"commence_time"}}

\* the responses of n events
EventListsOf(n) ==
    {[i \in 1..n |-> EventAt(i, ks[i], cts[i])] :
        ks \in [1..n -> KeySets], cts \in [1..n -> CommenceTimes]}

\* datetime.fromisoformat(text.replace("Z", "+00:00")): a wall clock in hours
\* and, when the text carries one, a UTC offset
FromIsoFormat(ct) ==
    IF ct.fmt # "iso" THEN [ok |-> FALSE, wall |-> 0, aware |-> FALSE, off |-> 0]
    ELSE [ok |-> TRUE, wall |-> 24 * ct.d + ct.h, aware |-> ct.sfx = "Z", off |-> 0]

\* utc_dt.replace(tzinfo=timezone.utc): the wall clock is kept, the zone set
ReplaceTzUtc(dt) == [dt EXCEPT !.aware = TRUE, !.off = 0]

\* the instant of an aware datetime, in hours UTC
Instant(dt) == dt.wall - dt.off

\* faulty variant of WithinLimit: utc_dt < time_limit
BeforeLimit(utc_dt, time_limit) == Instant(utc_dt) < time_limit

\* utc_dt <= time_limit
WithinLimit(utc_dt, time_limit) == Instant(utc_dt) <= time_limit

\* utc_dt.astimezone(eastern_tz): the modelled instants lie in one winter
\* week, where US/Eastern is five hours behind UTC
AsEastern(dt) == Instant(dt) - 5

\* the dict appended to games
GameOf(e, est) ==
    [id |-> e.id,
     game |-> <<e.home_team, e.away_team>>,
     date_est |-> est \div 24,
     time_est |-> est % 24,
     datetime_est |-> <<est \div 24, est % 24>>]

\* the try block of the loop body for event e: "raise" (the except clause
\* runs), "skip" (beyond the limit) or "keep" with the dict to append
ParseEvent(e, time_limit) ==
    IF "commence_time" \notin e.keys THEN [r |-> "raise", g |-> <<>>]
    ELSE LET p == FromIsoFormat(e.commence_time)
         IN  IF ~p.ok THEN [r |-> "raise", g |-> <<>>]
             ELSE LET utc_dt == ReplaceTzUtc(p)
                  IN  IF ~WithinLimit(utc_dt, time_limit) THEN [r |-> "skip", g |-> <<>>]
                      ELSE IF ~({"id", "home_team", "away_team"} \subseteq e.keys)
                           THEN [r |-> "raise", g |-> <<>>]
                           ELSE [r |-> "keep", g |-> <<GameOf(e, AsEastern(utc_dt))>>]

\* faulty variant of AfterParseError: break instead of continue
BreakOnParseError(i, n) == n

\* the except clause ends with continue: the loop goes on with the next event
AfterParseError(i, n) == i + 1

\* ways the events request can end before the loop: a RequestException, a
\* status other than 200, a body that is not JSON
EventsFailures == {"network", "status", "json"}

DiscIdle ==
    /\ api_key = "unread" /\ now_utc = 0 /\ events = <<>> /\ ei = 0
    /\ games = <<>> /\ printed = {} /\ ui = <<>> /\ dpc = "idle"

ConvIdle == odds_value = PyNone /\ american = RetNone /\ cpc = "idle"

\* load_api_key finds no usable key: st.error, st.stop()
DiscKeyStop ==
    /\ dpc = "start"
    /\ \E k \in KeyFiles :
          /\ ~KeyLoads(k)
          /\ api_key' = k
          /\ ui' = Append(ui, <<"error", k>>)
    /\ dpc' = "stopped"
    /\ UNCHANGED <<now_utc, events, ei, games, printed>>
    /\ UNCHANGED <<convVars, fetchVars>>

\* the request fails: st.error, return []
DiscRequestFails ==
    /\ dpc = "start"
    /\ \E k \in KeyFiles : KeyLoads(k) /\ api_key' = k
    /\ \E f \in EventsFailures : ui' = Append(ui, <<"error", f>>)
    /\ games' = <<>>
    /\ dpc' = "failed"
    /\ UNCHANGED <<now_utc, events, ei, printed>>
    /\ UNCHANGED <<convVars, fetchVars>>

\* the request succeeds with the events array; games = []
DiscRequestOk ==
    /\ dpc = "start"
    /\ \E k \in KeyFiles : KeyLoads(k) /\ api_key' = k
    /\ games' = <<>>
    /\ dpc' = "loop"
    /\ UNCHANGED <<now_utc, events, ei, printed, ui>>
    /\ UNCHANGED <<convVars, fetchVars>>

\* one iteration of for e in events
DiscStep ==
    /\ dpc = "loop"
    /\ ei < Len(events)
    /\ LET i == ei + 1
           p == ParseEvent(events[i], now_utc + HOURS_AHEAD)
       IN  /\ games' = games \o p.g
           /\ printed' = IF p.r = "raise" THEN printed \cup {i} ELSE printed
           /\ ei' = IF p.r = "raise" THEN AfterParseError(ei, Len(events)) ELSE i
    /\ UNCHANGED <<api_key, now_utc, events, ui, dpc>>
    /\ UNCHANGED <<convVars, fetchVars>>

\* after the loop: the warning for an empty list, return games
DiscReturn ==
    /\ dpc = "loop"
    /\ ei >= Len(events)
    /\ ui' = IF games = <<>> THEN Append(ui, <<"warning", "no games">>) ELSE ui
    /\ dpc' = "done"
    /\ UNCHANGED <<api_key, now_utc, events, ei, games, printed>>
    /\ UNCHANGED <<convVars, fetchVars>>

---------------------------------------------------------------------------
(* Odds fetch and result assembly: fetch_odds *)

\* most games the operator selects
MaxGames == 3
\* most bookmakers in one odds response of a batch of several games; each
\* lists one market with one outcome
BatchBooks == 1
\* most JSON objects (bookmakers, markets, outcomes) in the odds response to a
\* selection of one game
SingleNodes == 6

UpperCase == <<"A", "B", "C", "D", "E", "F", "G", "H", "I", "J", "K", "L", "M",
               "N", "O", "P", "Q", "R", "S", "T", "U", "V", "W", "X", "Y", "Z">>
LowerCase == <<"a", "b", "c", "d", "e", "f", "g", "h", "i", "j", "k", "l", "m",
               "n", "o", "p", "q", "r", "s", "t", "u", "v", "w", "x", "y", "z">>

\* str.lower() on one character, and on a text
LowerChar(c) ==
    IF \E i \in 1..26 : UpperCase[i] = c
    THEN LowerCase[CHOOSE i \in 1..26 : UpperCase[i] = c]
    ELSE c
Lower(s) == [i \in 1..Len(s) |-> LowerChar(s[i])]

\* needle in hay
Contains(needle, hay) ==
    \E i \in 0..(Len(hay) - Len(needle)) : SubSeq(hay, i + 1, i + Len(needle)) = needle

Fanduel == <<"f", "a", "n", "d", "u", "e", "l">>

\* the bookmaker titles of the responses
TitleFanDuel == <<"F", "a", "n", "D", "u", "e", "l">>
TitleDraftKings == <<"D", "r", "a", "f", "t", "K", "i", "n", "g", "s">>
TitleBetFanduel == <<"B", "e", "t", " ", "F", "A", "N", "D", "U", "E", "L">>
BatchTitles == {TitleFanDuel, TitleDraftKings}
SingleTitles == {TitleFanDuel, TitleDraftKings, TitleBetFanduel}

\* the outcomes of the responses: an "Over" at decimal 2.5 and an "Under"
\* at decimal 1.0, which has no American form
OutcomePool ==
    {[name |-> "Over", price |-> PyFloat(2 * Den + Den \div 2), description |-> "player", point |-> 250],
     [name |-> "Under", price |-> PyFloat(Den), description |-> "player", point |-> 250]}

\* the markets of w JSON objects: the market and w - 1 outcomes
MarketsOf(w) ==
    IF w < 1 THEN {}
    ELSE {[key |-> "player_pass_yds", outcomes |-> os] : os \in [1..(w - 1) -> OutcomePool]}

\* the lists of markets of w JSON objects in all
RECURSIVE MarketLists(_)
MarketLists(w) ==
    IF w = 0 THEN {<<>>}
    ELSE UNION {{<<m>> \o rest : m \in MarketsOf(v), rest \in MarketLists(w - v)} : v \in 1..w}

BookmakersOf(titles, w) ==
    IF w < 1 THEN {}
    ELSE {[title |-> t, markets |-> ms] : t \in titles, ms \in MarketLists(w - 1)}

RECURSIVE BookmakerLists(_, _)
BookmakerLists(titles, w) ==
    IF w = 0 THEN {<<>>}
    ELSE UNION {{<<b>> \o rest : b \in BookmakersOf(titles, v),
                                 rest \in BookmakerLists(titles, w - v)} : v \in 1..w}

NoData == [bookmakers |-> <<>>]

\* what one requests.get can end as.  kind "network": it raised a
\* RequestException; "http": a response with status code `code`, whose body is
\* JSON (`json`) or not; data is the parsed body of a 200
HttpResponse(code, json, data) == [kind |-> "http", code |-> code, json |-> json, data |-> data]
NetworkError == [kind |-> "network", code |-> 0, json |-> FALSE, data |-> NoData]
NoResponse == [kind |-> "none", code |-> 0, json |-> FALSE, data |-> NoData]

\* the outcomes of a request whose 200 bodies are those of datas
ResponsesWith(datas) ==
    {HttpResponse(200, TRUE, d) : d \in datas}
    \cup {HttpResponse(200, FALSE, NoData), HttpResponse(422, TRUE, NoData),
          HttpResponse(500, TRUE, NoData), HttpResponse(500, FALSE, NoData),
          NetworkError}

\* the bodies of a batch: up to BatchBooks bookmakers of three JSON objects
\* each (the bookmaker, its market, the outcome)
BatchData ==
    {[bookmakers |-> bs] : bs \in SeqsUpTo(BookmakersOf(BatchTitles, 3), BatchBooks)}

\* the bodies of at most n JSON objects
DataUpTo(titles, n) ==
    {[bookmakers |-> bs] : bs \in UNION {BookmakerLists(titles, w) : w \in 0..n}}

\* the i-th game of the selection, as get_upcoming_games built it
Game(i) == GameOf(EventAt(i, EventKeys, IsoZ(HOURS_AHEAD)), HOURS_AHEAD - 5)

\* faulty variant of IsNoOddsStatus: a 422 is handled like any other status
NeverNoOddsStatus(code) == FALSE

\* resp.status_code == 422
IsNoOddsStatus(code) == code = 422

\* faulty variant of TitleMatches: every bookmaker is taken
AnyTitle(title) == TRUE

\* "fanduel" in bookmaker.get("title", "").lower()
TitleMatches(title) == Contains(Fanduel, Lower(title))

\* the dict appended to all_props for one outcome
PropOf(game, bookmaker, market, outcome) ==
    [game |-> game.game,
     date_time_est |-> game.datetime_est,
     date_est |-> game.date_est,
     time_est |-> game.time_est,
     bookmaker |-> bookmaker.title,
     market |-> market.key,
     player |-> outcome.description,
     over_under |-> outcome.point,
     side |-> outcome.name,
     odds_american |-> to_american_odds(outcome.price)]

\* for outcome in market_item.get("outcomes", [])
MarketProps(game, bookmaker, market) ==
    [j \in 1..Len(market.outcomes) |-> PropOf(game, bookmaker, market, market.outcomes[j])]

\* for market_item in bookmaker.get("markets", [])
BookmakerProps(game, bookmaker) ==
    ConcatAll([k \in 1..Len(bookmaker.markets) |->
                  MarketProps(game, bookmaker, bookmaker.markets[k])])

\* for bookmaker in game_data.get("bookmakers", []), with the title filter
GameProps(game, data) ==
    ConcatAll([b \in 1..Len(data.bookmakers) |->
                  IF TitleMatches(data.bookmakers[b].title)
                  THEN BookmakerProps(game, data.bookmakers[b])
                  ELSE <<>>])

\* faulty variant of IsOver: every row is kept
AnySide(row) == TRUE

\* df["side"] == "Over"
IsOver(row) == row.side = "Over"

\* df[df["side"] == "Over"]
OverRows(rows) == SelectSeq(rows, IsOver)

\* faulty variant of FailureWarnings: a failed request is not reported
NoFailureWarnings(game, r) == <<>>

\* the st.warning calls of one iteration whose request failed with r
FailureWarnings(game, r) ==
    IF r.kind = "network" THEN <<[kind |-> "network", game |-> game.game, code |-> 0]>>
    ELSE IF r.code = 200 THEN <<[kind |-> "network", game |-> game.game, code |-> 0]>>
    ELSE <<[kind |-> IF r.json THEN "api message" ELSE "api text",
            game |-> game.game, code |-> r.code]>>

FetchIdle ==
    /\ selected_games = <<>> /\ idx = 0 /\ resp = NoResponse /\ gets = <<>>
    /\ all_props = <<>> /\ warnings = <<>> /\ progress = <<0, 1>> /\ df = <<>>
    /\ fpc = "idle"

\* the button handler finds nothing selected: st.warning, st.stop()
NothingSelected ==
    /\ fpc = "start"
    /\ selected_games = <<>>
    /\ warnings' = Append(warnings, [kind |-> "select", game |-> <<>>, code |-> 0])
    /\ fpc' = "stopped"
    /\ UNCHANGED <<selected_games, idx, resp, gets, all_props, progress, df>>
    /\ UNCHANGED <<convVars, discVars>>

\* fetch_odds is called; load_api_key stops the run for want of a key
FetchKeyStop ==
    /\ fpc = "start"
    /\ selected_games # <<>>
    /\ \E k \in KeyFiles : ~KeyLoads(k)
    /\ fpc' = "stopped"
    /\ UNCHANGED <<selected_games, idx, resp, gets, all_props, warnings, progress, df>>
    /\ UNCHANGED <<convVars, discVars>>

\* fetch_odds up to the loop: all_props = [], st.progress(0)
FetchBegin ==
    /\ fpc = "start"
    /\ selected_games # <<>>
    /\ \E k \in KeyFiles : KeyLoads(k)
    /\ all_props' = <<>>
    /\ progress' = <<0, 1>>
    /\ fpc' = "loop"
    /\ UNCHANGED <<selected_games, idx, resp, gets, warnings, df>>
    /\ UNCHANGED <<convVars, discVars>>

\* an iteration whose request raised RequestException: warning, continue
FetchNetworkError(game, r) ==
    /\ r.kind = "network"
    /\ warnings' = warnings \o FailureWarnings(game, r)
    /\ idx' = idx + 1
    /\ UNCHANGED <<all_props, progress, df, fpc>>

\* an iteration that got status 422: continue
FetchNoOdds(game, r) ==
    /\ r.kind = "http"
    /\ IsNoOddsStatus(r.code)
    /\ idx' = idx + 1
    /\ UNCHANGED <<all_props, warnings, progress, df, fpc>>

\* an iteration that got another status than 200: warning, continue
FetchBadStatus(game, r) ==
    /\ r.kind = "http"
    /\ ~IsNoOddsStatus(r.code)
    /\ r.code # 200
    /\ warnings' = warnings \o FailureWarnings(game, r)
    /\ idx' = idx + 1
    /\ UNCHANGED <<all_props, progress, df, fpc>>

\* a 200 whose body resp.json() rejects.  requests >= 2.27 raises its own
\* JSONDecodeError, a RequestException: the except clause warns and continues
FetchBadBodyCaught(game, r) ==
    /\ r.kind = "http" /\ r.code = 200 /\ ~r.json
    /\ warnings' = warnings \o FailureWarnings(game, r)
    /\ idx' = idx + 1
    /\ UNCHANGED <<all_props, progress, df, fpc>>

\* the same with an older requests: a plain ValueError leaves fetch_odds
FetchBadBodyRaises(game, r) ==
    /\ r.kind = "http" /\ r.code = 200 /\ ~r.json
    /\ fpc' = "raised"
    /\ UNCHANGED <<idx, all_props, warnings, progress, df>>

\* an iteration that got the odds: the records are appended, then
\* progress.progress((idx + 1) / len(selected_games))
FetchOdds(game, r) ==
    /\ r.kind = "http" /\ r.code = 200 /\ r.json
    /\ all_props' = all_props \o GameProps(game, r.data)
    /\ progress' = <<idx + 1, Len(selected_games)>>
    /\ idx' = idx + 1
    /\ UNCHANGED <<warnings, df, fpc>>

\* one iteration of for idx, game in enumerate(selected_games)
FetchStep(responses) ==
    /\ fpc = "loop"
    /\ idx < Len(selected_games)
    /\ \E r \in responses :
          LET game == selected_games[idx + 1]
          IN  /\ resp' = r
              /\ gets' = Append(gets, game.id)
              /\ \/ FetchNetworkError(game, r)
                 \/ FetchNoOdds(game, r)
                 \/ FetchBadStatus(game, r)
                 \/ FetchBadBodyCaught(game, r)
                 \/ FetchBadBodyRaises(game, r)
                 \/ FetchOdds(game, r)
    /\ UNCHANGED <<selected_games, convVars, discVars>>

\* after the loop: the table is empty, st.warning, return pd.DataFrame()
FetchReturnEmpty ==
    /\ fpc = "loop"
    /\ idx >= Len(selected_games)
    /\ all_props = <<>>
    /\ warnings' = Append(warnings, [kind |-> "empty", game |-> <<>>, code |-> 0])
    /\ df' = <<>>
    /\ fpc' = "done"
    /\ UNCHANGED <<selected_games, idx, resp, gets, all_props, progress>>
    /\ UNCHANGED <<convVars, discVars>>

\* after the loop: the "Over" rows of the table are returned
FetchReturn ==
    /\ fpc = "loop"
    /\ idx >= Len(selected_games)
    /\ all_props # <<>>
    /\ df' = OverRows(all_props)
    /\ fpc' = "done"
    /\ UNCHANGED <<selected_games, idx, resp, gets, all_props, warnings, progress>>
    /\ UNCHANGED <<convVars, discVars>>

---------------------------------------------------------------------------
(* Specifications *)

\* the prices to_american_odds is tried on
PriceChars == {"1", "2", "5", ".", "-", "a"}
Prices ==
    {PyInt(n) : n \in -MaxInt..MaxInt}
    \cup {PyFloat(w * Den + f) : w \in -MaxWhole..MaxWhole, f \in 0..(Den - 1)}
    \cup {PyInf(1), PyInf(-1), PyNaN, PyNone}
    \cup {PyStr(s) : s \in {t \in SeqsUpTo(PriceChars, MaxStrLen) : OnGrid(t)}}

\* the call of to_american_odds
Convert ==
    /\ cpc = "call"
    /\ american' = to_american_odds(odds_value)
    /\ cpc' = "ret"
    /\ UNCHANGED odds_value
    /\ UNCHANGED <<discVars, fetchVars>>

InitConv ==
    /\ odds_value \in Prices /\ american = RetNone /\ cpc = "call"
    /\ DiscIdle /\ FetchIdle
NextConv == Convert
SpecConv == InitConv /\ [][NextConv]_vars

InitDisc ==
    /\ api_key = "unread" /\ now_utc \in 0..MaxNow
    /\ \E n \in 0..MaxEvents : events \in EventListsOf(n)
    /\ ei = 0 /\ games = <<>> /\ printed = {} /\ ui = <<>> /\ dpc = "start"
    /\ ConvIdle /\ FetchIdle
NextDisc ==
    \/ DiscKeyStop
    \/ DiscRequestFails
    \/ DiscRequestOk
    \/ DiscStep
    \/ DiscReturn
SpecDisc == InitDisc /\ [][NextDisc]_vars

\* a batch of up to MaxGames games
Init ==
    /\ selected_games \in {[i \in 1..n |-> Game(i)] : n \in 0..MaxGames}
    /\ idx = 0 /\ resp = NoResponse /\ gets = <<>> /\ all_props = <<>>
    /\ warnings = <<>> /\ progress = <<0, 1>> /\ df = <<>> /\ fpc = "start"
    /\ ConvIdle /\ DiscIdle
Next ==
    \/ NothingSelected
    \/ FetchKeyStop
    \/ FetchBegin
    \/ FetchStep(ResponsesWith(BatchData))
    \/ FetchReturnEmpty
    \/ FetchReturn
Spec == Init /\ [][Next]_vars

\* a selection of at most one game, with the larger responses
InitSingle ==
    /\ selected_games \in {[i \in 1..n |-> Game(i)] : n \in 0..1}
    /\ idx = 0 /\ resp = NoResponse /\ gets = <<>> /\ all_props = <<>>
    /\ warnings = <<>> /\ progress = <<0, 1>> /\ df = <<>> /\ fpc = "start"
    /\ ConvIdle /\ DiscIdle
NextSingle ==
    \/ NothingSelected
    \/ FetchKeyStop
    \/ FetchBegin
    \/ FetchStep(ResponsesWith(DataUpTo(SingleTitles, SingleNodes)))
    \/ FetchReturnEmpty
    \/ FetchReturn
SpecSingle == InitSingle /\ [][NextSingle]_vars

---------------------------------------------------------------------------
(* Properties of to_american_odds, under SpecConv *)

\* the argument is a finite float
IsFiniteFloat == odds_value.t = "float"

\* v is the rational num / den, den > 0, truncated toward zero
IsTruncation(v, num, den) ==
    IF num >= 0
    THEN v >= 0 /\ v * den <= num /\ num < (v + 1) * den
    ELSE v <= 0 /\ (-v) * den <= -num /\ -num < (-v + 1) * den

HasLetter(s) == \E i \in 1..Len(s) : ~IsDigit(s[i]) /\ s[i] \notin {".", "-"}

\* C7: no exception leaves to_american_odds: the result is an int or None;
\* the float 1.0 gives None, and so does a text that is no number
C7_NeverRaises ==
    cpc = "ret"
    => /\ american.k \in {"int", "None"}
       /\ odds_value = PyFloat(Den) => american = RetNone
       /\ (odds_value.t = "str" /\ HasLetter(odds_value.s)) => american = RetNone

\* the division by zero of to_american_odds(1.0) ended as None
C7_Witness ==
    cpc = "ret" /\ odds_value = PyFloat(Den) /\ american = RetNone

---------------------------------------------------------------------------
(* Properties of get_upcoming_games, under SpecDisc *)

\* the kickoff the API states for an event, in hours UTC
Kickoff(e) == 24 * e.commence_time.d + e.commence_time.h

\* event i of the response is in the returned list
InGames(i) == \E j \in 1..Len(games) : games[j].id = events[i].id

\* the event has every field and a timestamp that parses
WellFormed(e) == e.keys = EventKeys /\ e.commence_time.fmt = "iso"

\* C1: of the events that parsed without error, exactly those with
\* kickoff <= now + HOURS_AHEAD are returned
C1_HorizonInclusive ==
    dpc = "done"
    => \A i \in 1..Len(events) :
          i \notin printed
          => (InGames(i) <=> Kickoff(events[i]) <= now_utc + HOURS_AHEAD)

\* an event exactly at now + HOURS_AHEAD was returned and one an hour later
\* was left out
C1_Witness ==
    /\ dpc = "done"
    /\ \E i, j \in 1..Len(events) :
          /\ WellFormed(events[i]) /\ WellFormed(events[j])
          /\ Kickoff(events[i]) = now_utc + HOURS_AHEAD /\ InGames(i)
          /\ Kickoff(events[j]) = now_utc + HOURS_AHEAD + 1 /\ ~InGames(j)

\* the events that parse and lie within the horizon, in response order
ExpectedEvents ==
    LET Kept(e) == WellFormed(e) /\ Kickoff(e) <= now_utc + HOURS_AHEAD
    IN  SelectSeq(events, Kept)

\* C9: the returned list is the subsequence, in response order, of the events
\* that parsed and lie within the horizon
C9_SkipsMalformedOnly ==
    dpc = "done"
    => /\ Len(games) = Len(ExpectedEvents)
       /\ \A j \in 1..Len(games) :
             /\ games[j].id = ExpectedEvents[j].id
             /\ games[j].game = <<ExpectedEvents[j].home_team, ExpectedEvents[j].away_team>>

\* a malformed event was followed by an event that was returned
C9_Witness ==
    /\ dpc = "done"
    /\ \E i, j \in 1..Len(events) :
          i < j /\ ~WellFormed(events[i]) /\ i \in printed /\ InGames(j)

---------------------------------------------------------------------------
(* Properties of fetch_odds, under Spec and SpecSingle *)

\* this step is an iteration of the loop, for game number idx + 1
IsIteration == fpc = "loop" /\ idx' = idx + 1

\* the outcomes of a request: success, 422, another status, a network error
IsSuccess(r) == r.kind = "http" /\ r.code = 200 /\ r.json
Is422(r) == r.kind = "http" /\ r.code = 422
IsOtherStatus(r) == r.kind = "http" /\ r.code \notin {200, 422}
IsNetworkError(r) == r.kind = "network"

\* C2: the iteration of an event answered with 422 adds no warning and no
\* record, and the loop goes on
C2_Silent422 ==
    [][(IsIteration /\ Is422(resp'))
        => /\ warnings' = warnings
           /\ all_props' = all_props
           /\ fpc' = "loop"]_vars

\* of three events the last was answered with 422; the result holds the
\* records of the other two and nothing was reported
C2_Witness ==
    /\ fpc = "done" /\ Len(selected_games) = 3 /\ Is422(resp)
    /\ warnings = <<>>
    /\ Len(df) = 2 /\ df[1].game = Game(1).game /\ df[2].game = Game(2).game

\* the title holds "fanduel" in whatever case
HasFanduel(title) ==
    \E i \in 0..(Len(title) - 7) :
       \A k \in 1..7 : LowerChar(title[i + k]) = Fanduel[k]

\* the number of outcomes listed under the bookmakers of data that satisfy Test
RECURSIVE SumLens(_, _)
SumLens(f, k) == IF k = 0 THEN 0 ELSE SumLens(f, k - 1) + Len(f[k])
OutcomeCount(bookmaker) ==
    SumLens([k \in 1..Len(bookmaker.markets) |-> bookmaker.markets[k].outcomes],
            Len(bookmaker.markets))
RECURSIVE FanduelOutcomes(_, _)
FanduelOutcomes(bs, k) ==
    IF k = 0 THEN 0
    ELSE FanduelOutcomes(bs, k - 1)
         + (IF HasFanduel(bs[k].title) THEN OutcomeCount(bs[k]) ELSE 0)

\* C3: every record comes from a bookmaker whose title holds "fanduel"
\* ignoring case; a response adds as many records as such bookmakers list
\* outcomes, so none if no bookmaker matches
C3_OnlyFanduel ==
    [][/\ \A j \in 1..Len(all_props') : HasFanduel(all_props'[j].bookmaker)
       /\ \A j \in 1..Len(df') : HasFanduel(df'[j].bookmaker)
       /\ (IsIteration /\ IsSuccess(resp'))
          => Len(all_props') = Len(all_props)
               + FanduelOutcomes(resp'.data.bookmakers, Len(resp'.data.bookmakers))]_vars

\* a response listed outcomes under "FanDuel" and under "DraftKings" and
\* every record is FanDuel's
C3_Witness ==
    /\ fpc = "done" /\ IsSuccess(resp)
    /\ \E a, b \in 1..Len(resp.data.bookmakers) :
          /\ resp.data.bookmakers[a].title = TitleFanDuel
          /\ OutcomeCount(resp.data.bookmakers[a]) > 0
          /\ resp.data.bookmakers[b].title = TitleDraftKings
          /\ OutcomeCount(resp.data.bookmakers[b]) > 0
    /\ df # <<>>
    /\ \A j \in 1..Len(all_props) : all_props[j].bookmaker = TitleFanDuel

\* the records of side "Over" among rows, in order
RECURSIVE OversOf(_)
OversOf(rows) ==
    IF rows = <<>> THEN <<>>
    ELSE IF Head(rows).side = "Over" THEN <<Head(rows)>> \o OversOf(Tail(rows))
    ELSE OversOf(Tail(rows))

\* C4: every row of the returned table has side "Over", and the table holds
\* every "Over" record that was assembled
C4_OnlyOver ==
    fpc = "done"
    => /\ \A j \in 1..Len(df) : df[j].side = "Over"
       /\ df = OversOf(all_props)

\* "Over" and "Under" records were assembled and the table is not empty
C4_Witness ==
    /\ fpc = "done"
    /\ \E i, j \in 1..Len(all_props) :
          all_props[i].side = "Over" /\ all_props[j].side = "Under"
    /\ Len(df) >= 1 /\ Len(df) < Len(all_props)

\* C8: every iteration issues the GET of its game; an outcome among success,
\* 422, other status and network error leaves the loop running, reports one
\* warning naming the game unless it is a success or a 422, and keeps the
\* records gathered so far, a success adding its own; at the return one GET
\* per selected game was issued, in list order, and the table holds the
\* "Over" records gathered
C8_BatchNeverAborts ==
    [][/\ IsIteration
          => /\ gets' = Append(gets, selected_games[idx + 1].id)
             /\ (IsSuccess(resp') \/ Is422(resp') \/ IsOtherStatus(resp') \/ IsNetworkError(resp'))
                => /\ fpc' = "loop"
                   /\ IF IsOtherStatus(resp') \/ IsNetworkError(resp')
                      THEN /\ Len(warnings') = Len(warnings) + 1
                           /\ SubSeq(warnings', 1, Len(warnings)) = warnings
                           /\ warnings'[Len(warnings')].game = selected_games[idx + 1].game
                      ELSE warnings' = warnings
                   /\ IF IsSuccess(resp')
                      THEN all_props' = all_props \o GameProps(selected_games[idx + 1], resp'.data)
                      ELSE all_props' = all_props
       /\ (fpc = "loop" /\ fpc' = "done")
          => /\ gets = [i \in 1..Len(selected_games) |-> selected_games[i].id]
             /\ df' = OversOf(all_props)]_vars

\* three games: a network error, a status 500, then a success whose record
\* is returned
C8_Witness ==
    /\ fpc = "done" /\ Len(selected_games) = 3 /\ Len(gets) = 3
    /\ Len(warnings) = 2
    /\ warnings[1].kind = "network" /\ warnings[2].code = 500
    /\ IsSuccess(resp) /\ Len(df) = 1 /\ df[1].game = Game(3).game

\* C10: once the loop has handled k of the n selected games the progress bar
\* shows k / n, whatever the outcomes were; n / n at the return
C10_ProgressIsProcessedOverTotal ==
    (fpc \in {"loop", "done"} /\ idx >= 1)
    => progress[1] * Len(selected_games) = idx * progress[2]

=============================================================================
